---------------------------- MODULE Spec2Model ----------------------------
(***************************************************************************)
(* A model of the /// interpreter slashes(string) of src/slashes.py.       *)
(*                                                                         *)
(* A program text is a sequence of one-character strings.  The generator   *)
(* is a state machine whose control position pc is the loop of the source  *)
(* it is about to execute:                                                 *)
(*   "start"        the generator is created, its body not yet entered     *)
(*   "while"        the test of `while string:`                 (line 194) *)
(*   "output"       the loop that yields the output prefix  (lines 200-209)*)
(*   "pattern"      the loop that collects the pattern      (lines 213-217)*)
(*   "replacement"  the loop that collects the replacement  (lines 221-225)*)
(*   "check"        `if i >= N: break` and the rule capture (lines 228-233)*)
(*   "pause_rule"   input() after the trace of a captured rule  (line 239) *)
(*   "subst"        the test of `while pat in string:`          (line 243) *)
(*   "pause_step"   input() after the trace of a substitution   (line 250) *)
(*   "done"         the generator is exhausted (StopIteration)             *)
(*   "IndexError"   string[i] was evaluated with i = len(string)           *)
(*   "EOFError"     input() met the end of the standard input              *)
(* The body of a generator runs only while its consumer waits in next():   *)
(* pulls counts the calls of next(), and the generator moves only while it *)
(* owes the consumer a character.  The model joins the `yield` of line 208 *)
(* and the `i += 1` of line 209, which the consumer cannot tell apart.     *)
(***************************************************************************)
EXTENDS Integers, Sequences, FiniteSets, TLC

VARIABLES
    prog,           \* the argument `string` of the call, kept for reference
    legacyReplace,  \* the interpreter that runs the file: see Replace1
    verbose,        \* the argument `verbose`
    color,          \* the argument `color`
    X,              \* the list `X` of the four trace delimiters
    output,         \* the list `output` that a traced run keeps
    printed,        \* the lines written to the standard output, in order
    pulls,          \* the calls of next() the consumer has made
    string,         \* the buffer: the local variable `string`
    N,              \* len(string) at the start of the driver iteration
    i,              \* the scan index (0-based, as in the source)
    pattern,        \* the list `pattern`
    replacement,    \* the list `replacement`
    pat,            \* "".join(pattern) of the captured rule
    rep,            \* "".join(replacement) of the captured rule
    yielded,        \* the characters the consumer has received, in order
    pc              \* the control position

vars == <<prog, legacyReplace, verbose, color, X, output, printed, pulls,
          string, N, i, pattern, replacement, pat, rep, yielded, pc>>

-----------------------------------------------------------------------------
(* Bounds of the model.                                                    *)

\* longest program drawn from the full alphabet
MaxLen == 5
\* longest pattern of a program of the shape /A/B/R
MaxPat == 2
\* longest replacement of a program of the shape /A/B/R
MaxRep == 1
\* longest remainder R of a program of the shape /A/B/R
MaxRem == 3
\* how far the buffer may outgrow the program before the model stops a run
MaxGrow == 3
\* steps the function Run takes before it gives up on a run
Fuel == 120
\* longest program drawn from the full alphabet that is run with
\* every trace option
MaxTraced == 3
\* lines a traced run may print before the model stops it
MaxPrinted == 16

-----------------------------------------------------------------------------
(* Characters and program texts.                                           *)

Slash == "/"

Backslash == "\\"

Plain == {"a", "b"}

Alphabet == Plain \cup {Slash, Backslash}

SeqsUpTo(S, n) == UNION {[1..k -> S] : k \in 0..n}

HELLO_WORLD_0 ==
    <<"H", "e", "l", "l", "o", ",", " ", "w", "o", "r", "l", "d", "!">>

HELLO_WORLD_1 ==
    <<"/", " ", "w", "o", "r", "l", "d", "!", " ", "w", "o", "r", "l", "d",
      "!", "/", "H", "e", "l", "l", "o", ",", "/", " ", "w", "o", "r", "l",
      "d", "!", " ", "w", "o", "r", "l", "d", "!", " ", "w", "o", "r", "l",
      "d", "!">>

HELLO_WORLD_2 ==
    <<"/", "f", "o", "o", "/", "H", "e", "l", "l", "o", ",", " ", "w", "o",
      "r", "l", "d", "!", "/", "/", "b", "a", "r", "/", "f", "o", "o", "/",
      "b", "a", "r">>

HELLO_WORLD_5 ==
    <<"/", "f", "o", "o", "/", "H", "e", "l", "l", "o", ",", " ", "w", "o",
      "r", "l", "d", "!", "/", "/", "B", "\\", "/", "\\", "\\", "R", "/", "f",
      "o", "o", "/", "B", "/", "\\", "R">>

\* the example programs of the specification's section 8
SlashSlashAnything ==
    <<"/", "/", "a", "n", "y", "t", "h", "i", "n", "g">>

SlashSlashSlashAnything ==
    <<"/", "/", "/", "a", "n", "y", "t", "h", "i", "n", "g">>

FooBarFoo ==
    <<"/", "f", "o", "o", "/", "b", "a", "r", "/", "/", "f", "o", "o">>

\* the two diverging programs of the language description (lines 121, 133)
FooFoobarFoo ==
    <<"/", "f", "o", "o", "/", "f", "o", "o", "b", "a", "r", "/", "f", "o",
      "o">>

AbBbaaAbb ==
    <<"/", "a", "b", "/", "b", "b", "a", "a", "/", "a", "b", "b">>

\* an output prefix followed by a rule with an empty pattern
PrefixThenEmptyPattern == <<"a", "b", "/", "/", "x", "/">>

\* a rule whose replacement is its pattern
SelfReplacing == <<"/", "a", "/", "a", "/", "b", "a">>

\* the two-character program backslash-slash
EscapedSlash == <<"\\", "/">>

\* an escaped delimiter in output, pattern and replacement position
EscapedSlashes ==
    <<"\\", "/", "/", "\\", "/", "/", "\\", "/", "/", "a">>

HelloWorld ==
    <<"H", "e", "l", "l", "o", ",", " ", "w", "o", "r", "l", "d", "!">>

HelloWorldWorld ==
    <<"H", "e", "l", "l", "o", ",", " ", "w", "o", "r", "l", "d", "!", " ",
      "w", "o", "r", "l", "d", "!">>

HelloWorldBar ==
    <<"H", "e", "l", "l", "o", ",", " ", "w", "o", "r", "l", "d", "!", "b",
      "a", "r">>

Samples ==
    {HELLO_WORLD_0, HELLO_WORLD_1, HELLO_WORLD_2, HELLO_WORLD_5,
     SlashSlashAnything, SlashSlashSlashAnything, FooBarFoo,
     FooFoobarFoo, AbBbaaAbb, PrefixThenEmptyPattern, SelfReplacing,
     EscapedSlash, EscapedSlashes}

\* the program text "/" + A + "/" + B + "/" + R
Rule(A, B, R) == <<Slash>> \o A \o <<Slash>> \o B \o <<Slash>> \o R

RulePrograms ==
    {Rule(A, B, R) : A \in SeqsUpTo(Plain, MaxPat),
                     B \in SeqsUpTo(Plain, MaxRep),
                     R \in SeqsUpTo(Alphabet, MaxRem)}

RECURSIVE Escaped(_)
\* the text s as a program writes it: an escape marker before every "/" and
\* every "\"
Escaped(s) ==
    IF s = <<>> THEN <<>>
    ELSE (IF Head(s) \in {Slash, Backslash} THEN <<Backslash>> ELSE <<>>)
             \o <<Head(s)>> \o Escaped(Tail(s))

\* rules whose replacement holds any characters, "/" and "\" included
CodeRulePrograms ==
    {Rule(A, Escaped(B), R) : A \in SeqsUpTo(Plain, MaxPat),
                              B \in SeqsUpTo(Alphabet, MaxRep),
                              R \in SeqsUpTo(Plain, MaxRem)}

Programs ==
    SeqsUpTo(Alphabet, MaxLen) \cup RulePrograms \cup CodeRulePrograms
        \cup Samples

\* the programs that are run with every value of verbose and color
TracedPrograms == SeqsUpTo(Alphabet, MaxTraced) \cup Samples

\* the values of `verbose` the tests of the source tell apart
Verbosities == 0..5

\* the values of `color` the tests of the source tell apart
Colors == 0..2

-----------------------------------------------------------------------------
(* The string operations of the source.                                    *)

\* string[k], with Python's 0-based index
At(s, k) == s[k + 1]

\* string[k:]
From(s, k) == SubSeq(s, k + 1, Len(s))

\* p occurs in s at the 0-based index k
Occurs(s, p, k) ==
    /\ k + Len(p) <= Len(s)
    /\ SubSeq(s, k + 1, k + Len(p)) = p

\* a membership test that only looks at the start of the buffer
ContainsAtStart(s, p) == Occurs(s, p, 0)

\* a membership test that an empty buffer never passes
ContainsInNonEmpty(s, p) ==
    /\ s # <<>>
    /\ \E k \in 0..Len(s) : Occurs(s, p, k)

\* a membership test that misses an occurrence which ends the buffer
ContainsBeforeEnd(s, p) ==
    \E k \in 0..(Len(s) - Len(p) - 1) : Occurs(s, p, k)

\* `p in s`
Contains(s, p) == \E k \in 0..Len(s) : Occurs(s, p, k)

\* the highest index where p occurs
FindLast(s, p) ==
    CHOOSE k \in 0..Len(s) :
        /\ Occurs(s, p, k)
        /\ \A j \in (k + 1)..Len(s) : ~Occurs(s, p, j)

\* the index str.replace(p, r, 1) rewrites at: the lowest one where p occurs
Find(s, p) ==
    CHOOSE k \in 0..Len(s) :
        /\ Occurs(s, p, k)
        /\ \A j \in 0..(k - 1) : ~Occurs(s, p, j)

\* a replacement that loses the text before the occurrence
Replace1DropsHead(s, p, r, legacy) ==
    IF ~Contains(s, p) THEN s
    ELSE IF legacy /\ s = <<>> THEN <<>>
    ELSE r \o From(s, Find(s, p) + Len(p))

\* a replacement that writes the replacement after the occurrence
Replace1Appends(s, p, r, legacy) ==
    IF ~Contains(s, p) THEN s
    ELSE IF legacy /\ s = <<>> THEN <<>>
    ELSE LET k == Find(s, p)
         IN  SubSeq(s, 1, k) \o From(s, k + Len(p)) \o r

\* a replacement that writes the replacement text escaped, as data
Replace1Escapes(s, p, r, legacy) ==
    IF ~Contains(s, p) THEN s
    ELSE IF legacy /\ s = <<>> THEN <<>>
    ELSE LET k == Find(s, p)
         IN  SubSeq(s, 1, k) \o Escaped(r) \o From(s, k + Len(p))

\* s.replace(p, r, 1).  CPython before 3.9 (Python 2 included, which the
\* file's compatibility hack targets) returns "" for "".replace("", r, 1);
\* from 3.9 on it returns r.  `legacy` says which interpreter runs the file.
Replace1(s, p, r, legacy) ==
    IF ~Contains(s, p) THEN s
    ELSE IF legacy /\ s = <<>> THEN <<>>
    ELSE LET k == Find(s, p)
         IN  SubSeq(s, 1, k) \o r \o From(s, k + Len(p))

\* `if string[i] == "/": break`, with the loop test `i < N`
ScanEnds(s, k, n) == ~(k < n) \/ At(s, k) = Slash

\* a scan that takes the escape marker for an ordinary character
TargetIgnoresEscape(s, k) == k

\* `if string[i] == "\\": i += 1`: the index the scan reads next
Target(s, k) == IF At(s, k) = Backslash THEN k + 1 ELSE k

\* string[k] raises IndexError
OutOfRange(s, k) == k >= Len(s)

-----------------------------------------------------------------------------
(* The steps of the generator, as functions of its frame.                  *)

Frame ==
    [prog |-> prog, legacyReplace |-> legacyReplace, verbose |-> verbose,
     color |-> color, X |-> X, output |-> output, printed |-> printed,
     string |-> string, N |-> N, i |-> i, pattern |-> pattern,
     replacement |-> replacement, pat |-> pat, rep |-> rep,
     yielded |-> yielded, pc |-> pc]

\* the frame of the generator slashes(p, v, c), before its first step
CallWith(p, legacy, v, c) ==
    [prog |-> p, legacyReplace |-> legacy, verbose |-> v, color |-> c,
     X |-> <<>>, output |-> <<>>, printed |-> <<>>, string |-> p,
     N |-> 0, i |-> 0, pattern |-> <<>>, replacement |-> <<>>,
     pat |-> <<>>, rep |-> <<>>, yielded |-> <<>>, pc |-> "start"]

\* the frame of the generator slashes(p), with the default options
Call(p, legacy) == CallWith(p, legacy, 0, 0)

\* the list X of trace delimiters; ESC stands for the character "\033"
Delimiters(c) ==
    IF c <= 0 THEN <<"/", "/", "/", "\n">>
    ELSE IF c = 1
         THEN <<"ESC[0;1m/ESC[0;2m", "ESC[0;1m/ESC[0;2m",
                "ESC[0;1m/ESC[0;2m", "ESC[0m\n">>
         ELSE <<"ESC[0;1;31m/ESC[0;1;34m", "ESC[0;1;31m/ESC[0;1;32m",
                "ESC[0;1;31m/ESC[0m", "ESC[0m\n">>

\* the line print("APPLY:  "+X[0]+pat+X[1]+rep+X[2]+string+X[3]) writes
ApplyLine(st) ==
    <<"APPLY:  ", st.X[1]>> \o st.pat \o <<st.X[2]>> \o st.rep
        \o <<st.X[3]>> \o st.string \o <<st.X[4]>>

\* the printed lines after `if k: print(line)`
Printed(st, k, line) == IF k THEN Append(st.printed, line) ELSE st.printed

\* the code before the driver loop: the trace of the input and the list X
Begin(st) ==
    [st EXCEPT !.output = <<>>,
               !.printed = Printed(st, st.verbose > 0,
                                   <<"INPUT:  ">> \o st.string \o <<"\n">>),
               !.X = Delimiters(st.color),
               !.pc = "while"]

\* the code after the driver loop: the trace of the output, then the end
Finish(st) ==
    [st EXCEPT !.printed = Printed(st, st.verbose > 0,
                                   <<"OUTPUT: ">> \o st.output),
               !.pc = "done"]

\* `while string:`, `N = len(string)`, `i = 0`
WhileString(st) ==
    IF st.string = <<>>
    THEN Finish(st)
    ELSE [st EXCEPT !.N = Len(st.string), !.i = 0, !.pc = "output"]

\* an output loop that yields only when it also traces
OutputLoopYieldsIfVerbose(st) ==
    IF ~(st.i < st.N) \/ st.string[st.i + 1] = "/"
    THEN [st EXCEPT !.i = st.i + 1, !.pattern = <<>>, !.pc = "pattern"]
    ELSE LET k == IF st.string[st.i + 1] = "\\" THEN st.i + 1 ELSE st.i
         IN  IF k >= Len(st.string)
             THEN [st EXCEPT !.i = k, !.pc = "IndexError"]
             ELSE [st EXCEPT !.output = IF st.verbose > 0
                                        THEN Append(@, st.string[k + 1])
                                        ELSE @,
                             !.yielded = IF st.verbose > 0
                                         THEN Append(@, st.string[k + 1])
                                         ELSE @,
                             !.i = k + 1]

\* one pass of the output loop, or its exit and `i, pattern = i+1, []`
OutputLoop(st) ==
    IF ScanEnds(st.string, st.i, st.N)
    THEN [st EXCEPT !.i = st.i + 1, !.pattern = <<>>, !.pc = "pattern"]
    ELSE LET k == Target(st.string, st.i)
         IN  IF OutOfRange(st.string, k)
             THEN [st EXCEPT !.i = k, !.pc = "IndexError"]
             ELSE [st EXCEPT !.output = IF st.verbose > 0
                                        THEN Append(@, At(st.string, k))
                                        ELSE @,
                             !.yielded = Append(@, At(st.string, k)),
                             !.i = k + 1]

\* one pass of the pattern loop, or its exit and `i, replacement = i+1, []`
PatternLoop(st) ==
    IF ScanEnds(st.string, st.i, st.N)
    THEN [st EXCEPT !.i = st.i + 1, !.replacement = <<>>,
                    !.pc = "replacement"]
    ELSE LET k == Target(st.string, st.i)
         IN  IF OutOfRange(st.string, k)
             THEN [st EXCEPT !.i = k, !.pc = "IndexError"]
             ELSE [st EXCEPT !.pattern = Append(@, At(st.string, k)),
                             !.i = k + 1]

\* a replacement loop that forgets its `i += 1`
ReplacementLoopStuck(st) ==
    IF ~(st.i < st.N) \/ st.string[st.i + 1] = "/"
    THEN [st EXCEPT !.pc = "check"]
    ELSE LET k == IF st.string[st.i + 1] = "\\" THEN st.i + 1 ELSE st.i
         IN  IF k >= Len(st.string)
             THEN [st EXCEPT !.i = k, !.pc = "IndexError"]
             ELSE [st EXCEPT !.replacement = Append(@, st.string[k + 1]),
                             !.i = k]

\* one pass of the replacement loop, or its exit
ReplacementLoop(st) ==
    IF ScanEnds(st.string, st.i, st.N)
    THEN [st EXCEPT !.pc = "check"]
    ELSE LET k == Target(st.string, st.i)
         IN  IF OutOfRange(st.string, k)
             THEN [st EXCEPT !.i = k, !.pc = "IndexError"]
             ELSE [st EXCEPT !.replacement = Append(@, At(st.string, k)),
                             !.i = k + 1]

\* a halt test that misses the scan which ends exactly at the end
IncompleteStrict(k, n) == k > n

\* `if i >= N: break`
Incomplete(k, n) == k >= n

\* a capture that leaves the rule in the buffer
RemainderKeepsRule(s, k) == s

\* a remainder that keeps the third delimiter
RemainderKeepsSlash(s, k) == From(s, k)

\* `string[i+1:]`, the text after the third delimiter
Remainder(s, k) == From(s, k + 1)

\* the trace of a rule or of a substitution: the line, printed from trace
\* level `shown` on, and the pause at `to`, taken from level `paused` on
Trace(st, shown, paused, to) ==
    LET pauses == st.verbose > shown /\ st.verbose > paused
        traced == [st EXCEPT !.printed = Printed(st, st.verbose > shown,
                                                 ApplyLine(st))]
    IN  [traced EXCEPT !.printed = Printed(traced, pauses,
                              <<"\nPress <Return> to resume execution">>),
                       !.pc = IF pauses THEN to ELSE "subst"]

\* the halt on an incomplete rule, or the capture of pat, rep and remainder
\* with its trace
RuleCheck(st) ==
    IF Incomplete(st.i, st.N)
    THEN Finish(st)
    ELSE Trace([st EXCEPT !.pat = st.pattern, !.rep = st.replacement,
                          !.string = Remainder(st.string, st.i)],
               1, 3, "pause_rule")

\* a rewriting loop that makes one pass at most
SubstituteOnce(st) ==
    IF \E k \in 0..Len(st.string) :
           /\ k + Len(st.pat) <= Len(st.string)
           /\ SubSeq(st.string, k + 1, k + Len(st.pat)) = st.pat
    THEN [st EXCEPT !.string =
                        Replace1(st.string, st.pat, st.rep, st.legacyReplace),
                    !.pc = "while"]
    ELSE [st EXCEPT !.pc = "while"]

\* `while pat in string: string = string.replace(pat, rep, 1)`, one pass
\* with its trace
Substitute(st) ==
    IF Contains(st.string, st.pat)
    THEN Trace([st EXCEPT !.string = Replace1(st.string, st.pat, st.rep,
                                              st.legacyReplace)],
               2, 4, "pause_step")
    ELSE [st EXCEPT !.pc = "while"]

PausePcs == {"pause_rule", "pause_step"}

\* input() returns: the line that moves the cursor back, then the loop
Resume(st) ==
    [st EXCEPT !.printed = Append(@, <<"ESC[1AESC[2KESC[1AESC[2KESC[1A">>),
               !.pc = "subst"]

\* input() finds the standard input at its end
Abort(st) == [st EXCEPT !.pc = "EOFError"]

\* the ends of a run that the program text decides
Terminal == {"done", "IndexError"}

\* the control positions at which the generator has ended
Ended == Terminal \cup {"EOFError"}

\* the next frame of the generator; a pause is answered
Step(st) ==
    CASE st.pc = "start"       -> Begin(st)
      [] st.pc = "while"       -> WhileString(st)
      [] st.pc = "output"      -> OutputLoop(st)
      [] st.pc = "pattern"     -> PatternLoop(st)
      [] st.pc = "replacement" -> ReplacementLoop(st)
      [] st.pc = "check"       -> RuleCheck(st)
      [] st.pc = "subst"       -> Substitute(st)
      [] st.pc \in PausePcs    -> Resume(st)
      [] OTHER                 -> st

RECURSIVE Run(_, _, _)
\* the frame at the first control position of `stop`, or after `fuel` steps
Run(st, stop, fuel) ==
    IF fuel = 0 \/ st.pc \in stop THEN st
    ELSE Run(Step(st), stop, fuel - 1)

\* the frame in which the run of slashes(p) ends, within Fuel steps
Result(p, legacy) == Run(Call(p, legacy), Terminal, Fuel)

-----------------------------------------------------------------------------
(* The state machine.                                                      *)

Adopt(st) ==
    /\ prog' = st.prog
    /\ legacyReplace' = st.legacyReplace
    /\ verbose' = st.verbose
    /\ color' = st.color
    /\ X' = st.X
    /\ output' = st.output
    /\ printed' = st.printed
    /\ string' = st.string
    /\ N' = st.N
    /\ i' = st.i
    /\ pattern' = st.pattern
    /\ replacement' = st.replacement
    /\ pat' = st.pat
    /\ rep' = st.rep
    /\ yielded' = st.yielded
    /\ pc' = st.pc

\* a function body that runs to its end without waiting for its consumer
RunsEagerly == TRUE

\* the generator is inside a call of next(): it owes a character
Running == Len(yielded) < pulls

Init ==
    /\ prog \in Programs
    /\ legacyReplace \in BOOLEAN
    /\ \/ verbose = 0 /\ color = 0
       \/ prog \in TracedPrograms /\ verbose \in Verbosities
                                  /\ color \in Colors
    /\ X = <<>>
    /\ output = <<>>
    /\ printed = <<>>
    /\ pulls = 0
    /\ string = prog
    /\ N = 0
    /\ i = 0
    /\ pattern = <<>>
    /\ replacement = <<>>
    /\ pat = <<>>
    /\ rep = <<>>
    /\ yielded = <<>>
    /\ pc = "start"

\* the consumer calls next() on the suspended generator
Pull ==
    /\ pc \notin Ended
    /\ ~Running
    /\ pulls' = pulls + 1
    /\ UNCHANGED <<prog, legacyReplace, verbose, color, X, output, printed,
                   string, N, i, pattern, replacement, pat, rep, yielded, pc>>

Enter ==
    /\ pc = "start"
    /\ Running
    /\ Adopt(Begin(Frame))
    /\ UNCHANGED pulls

StartIteration ==
    /\ pc = "while"
    /\ Running
    /\ Adopt(WhileString(Frame))
    /\ UNCHANGED pulls

EmitPrefix ==
    /\ pc = "output"
    /\ Running
    /\ Adopt(OutputLoop(Frame))
    /\ UNCHANGED pulls

ReadPattern ==
    /\ pc = "pattern"
    /\ Running
    /\ Adopt(PatternLoop(Frame))
    /\ UNCHANGED pulls

ReadReplacement ==
    /\ pc = "replacement"
    /\ Running
    /\ Adopt(ReplacementLoop(Frame))
    /\ UNCHANGED pulls

HaltOrCapture ==
    /\ pc = "check"
    /\ Running
    /\ Adopt(RuleCheck(Frame))
    /\ UNCHANGED pulls

\* the model follows a run until its buffer outgrows the program by
\* MaxGrow, or its trace grows beyond MaxPrinted lines
Rewrite ==
    /\ pc = "subst"
    /\ Running
    /\ Len(Substitute(Frame).string) <= Len(prog) + MaxGrow
    /\ Len(Substitute(Frame).printed) <= MaxPrinted
    /\ Adopt(Substitute(Frame))
    /\ UNCHANGED pulls

\* the host answers the pause with a line
Acknowledge ==
    /\ pc \in PausePcs
    /\ Adopt(Resume(Frame))
    /\ UNCHANGED pulls

\* the standard input ends while the run pauses
EndOfInput ==
    /\ pc \in PausePcs
    /\ Adopt(Abort(Frame))
    /\ UNCHANGED pulls

Next ==
    \/ Pull
    \/ Enter
    \/ StartIteration
    \/ EmitPrefix
    \/ ReadPattern
    \/ ReadReplacement
    \/ HaltOrCapture
    \/ Rewrite
    \/ Acknowledge
    \/ EndOfInput

Spec == Init /\ [][Next]_vars

-----------------------------------------------------------------------------
(* The vocabulary of the specification, defined on program texts alone.    *)

ScanPcs == {"output", "pattern", "replacement"}

NoSlash(s) == \A k \in 1..Len(s) : s[k] # Slash

RECURSIVE Unescape(_)
\* s with every escape marker removed and the character after it kept; a
\* marker with nothing after it contributes nothing
Unescape(s) ==
    IF s = <<>> THEN <<>>
    ELSE IF Head(s) = Backslash
         THEN IF Len(s) = 1 THEN <<>>
              ELSE <<s[2]>> \o Unescape(SubSeq(s, 3, Len(s)))
         ELSE <<Head(s)>> \o Unescape(Tail(s))

RECURSIVE Delims(_)
\* the number of unescaped delimiters of s
Delims(s) ==
    IF s = <<>> THEN 0
    ELSE IF Head(s) = Backslash THEN Delims(SubSeq(s, 3, Len(s)))
    ELSE (IF Head(s) = Slash THEN 1 ELSE 0) + Delims(Tail(s))

RECURSIVE OutputPrefix(_)
\* the text before the first unescaped delimiter of s, unescaped
OutputPrefix(s) ==
    IF s = <<>> \/ Head(s) = Slash THEN <<>>
    ELSE IF Head(s) = Backslash
         THEN IF Len(s) = 1 THEN <<>>
              ELSE <<s[2]>> \o OutputPrefix(SubSeq(s, 3, Len(s)))
         ELSE <<Head(s)>> \o OutputPrefix(Tail(s))

\* the position in the program's own run: a pause stands in the rewriting
\* loop it interrupts
SemPc(q) == IF q \in PausePcs THEN "subst" ELSE q

\* the last n elements of s
Last(s, n) == SubSeq(s, Len(s) - n + 1, Len(s))

\* the scan stands on an escape marker that is the last character of the buffer
OnTrailingEscape ==
    /\ pc \in ScanPcs
    /\ i < N
    /\ i = Len(string) - 1
    /\ At(string, i) = Backslash

-----------------------------------------------------------------------------
(* The claims.                                                             *)

\* C1: a program without any "/" yields its text with every escape marker
\* removed and the escaped character kept, raises no error, applies no rule
\* and halts with exactly that output.
C1_NoDelimiterUnescapes ==
    NoSlash(prog) =>
        /\ pc # "IndexError"
        /\ pc # "subst"
        /\ pc = "done" => yielded = Unescape(prog)

\* C2: once a complete rule with an empty pattern is captured, whatever the
\* replacement and the remainder, the next step of the generator is again a
\* substitution step of that rule and yields nothing: the run never leaves
\* the rewriting loop, never halts and emits no further character.
C2_EmptyPatternDiverges ==
    (pc = "subst" /\ pat = <<>>) =>
        LET nxt == Step(Frame)
        IN  /\ SemPc(nxt.pc) = "subst"
            /\ nxt.pat = <<>>
            /\ nxt.yielded = yielded

\* C2 witness: the empty-pattern rule of //a/b has rewritten its remainder
\* twice.
C2_Witness ==
    /\ prog = <<"/", "/", "a", "/", "b">>
    /\ pc = "subst"
    /\ pat = <<>>
    /\ string = <<"a", "a", "b">>

\* C3 as stated: the run of "//anything" never terminates and never emits.
C3_NeverTerminates ==
    prog = SlashSlashAnything => (pc # "done" /\ yielded = <<>>)

\* C3, amended: the run of "//anything" emits nothing, raises no error and
\* never enters the rewriting loop (its text holds two delimiters only, so
\* it halts); with a third delimiter, "///anything", the run emits nothing
\* and never halts.
C3_TwoDelimitersHalt ==
    /\ prog = SlashSlashAnything =>
           (yielded = <<>> /\ pc \notin {"subst", "IndexError"})
    /\ prog = SlashSlashSlashAnything =>
           (yielded = <<>> /\ pc \notin Terminal)

\* C3 witness: the run of "//anything" has halted.
C3_Witness ==
    /\ prog = SlashSlashAnything
    /\ pc = "done"
    /\ yielded = <<>>

\* C4: a scan that reaches an escape marker which is the last character of
\* the buffer drops it: the step raises no error and adds nothing to the
\* output, the pattern or the replacement.
C4_TrailingEscapeDropped ==
    [][OnTrailingEscape =>
          /\ pc' # "IndexError"
          /\ yielded' = yielded
          /\ pattern' = pattern
          /\ replacement' = replacement]_vars

\* C5: while the buffer of the current driver iteration holds fewer than
\* three unescaped delimiters, no step rewrites the buffer, captures a rule
\* or raises an error, nothing is emitted after the output prefix, and once
\* the prefix is scanned the last characters emitted are exactly that prefix.
C5_IncompleteRuleHalts ==
    /\ [][(pc \in ScanPcs \cup {"check"} /\ Delims(string) < 3) =>
             /\ string' = string
             /\ pc' \notin {"subst", "IndexError"}
             /\ pc # "output" => yielded' = yielded]_vars
    /\ []((pc \in {"pattern", "replacement", "check"} /\ Delims(string) < 3) =>
             /\ Len(yielded) >= Len(OutputPrefix(string))
             /\ Last(yielded, Len(OutputPrefix(string))) = OutputPrefix(string))

\* C6: a scan step of the running generator that stands on an escape marker
\* followed by a character consumes both, stays in the same scan and adds exactly the escaped
\* character (a "/" included) to the segment being scanned: the output in
\* output position, the pattern or the replacement otherwise.  The program
\* backslash-slash emits a single "/" and halts without capturing a rule.
C6_EscapePairAtomic ==
    /\ [][(/\ pc \in ScanPcs
           /\ Running
           /\ i < N
           /\ At(string, i) = Backslash
           /\ i + 1 < Len(string)) =>
             /\ pc' = pc
             /\ i' = i + 2
             /\ string' = string
             /\ yielded' = IF pc = "output"
                           THEN Append(yielded, At(string, i + 1))
                           ELSE yielded
             /\ pattern' = IF pc = "pattern"
                           THEN Append(pattern, At(string, i + 1))
                           ELSE pattern
             /\ replacement' = IF pc = "replacement"
                               THEN Append(replacement, At(string, i + 1))
                               ELSE replacement]_vars
    /\ [](prog = EscapedSlash =>
             /\ pc \notin {"subst", "IndexError"}
             /\ pc = "done" => yielded = <<Slash>>
             /\ Result(prog, legacyReplace).pc = "done"
             /\ Result(prog, legacyReplace).yielded = <<Slash>>)

\* C6 witness: an escaped "/" was emitted, another became the pattern and a
\* third the replacement of the captured rule.
C6_Witness ==
    /\ prog = EscapedSlashes
    /\ pc = "subst"
    /\ yielded = <<Slash>>
    /\ pat = <<Slash>>
    /\ rep = <<Slash>>
    /\ string = <<"a">>

\* C7 as stated: the run of HELLO_WORLD_1 ends with the output
\* "Hello, world! world!".
C7_HelloWorldWorld ==
    (prog = HELLO_WORLD_1 /\ pc = "done") => yielded = HelloWorldWorld

\* C7, amended: the run of HELLO_WORLD_1 raises no error and halts with the
\* output "Hello, world!" (the leftmost " world! world!" of the remainder is
\* the one replaced, which leaves a single " world!").
C7_HelloWorld ==
    prog = HELLO_WORLD_1 =>
        /\ pc # "IndexError"
        /\ pc = "done" => yielded = HelloWorld
        /\ Result(prog, legacyReplace).pc = "done"
        /\ Result(prog, legacyReplace).yielded = HelloWorld

\* C7 witness: the run of HELLO_WORLD_1 has halted.
C7_Witness ==
    /\ prog = HELLO_WORLD_1
    /\ pc = "done"
    /\ yielded = HelloWorld

\* C8 as stated: the run of HELLO_WORLD_2 ends with the output
\* "Hello, world!bar".
C8_HelloWorldBar ==
    (prog = HELLO_WORLD_2 /\ pc = "done") => yielded = HelloWorldBar

\* C8, amended: the run of HELLO_WORLD_2 raises no error and halts with the
\* output "Hello, world!"; it emits only in its last driver iteration, whose
\* buffer is "Hello, world!" (the second rule has rewritten the remainder
\* "bar"), and no "bar" is ever emitted.
C8_HelloWorld ==
    prog = HELLO_WORLD_2 =>
        /\ pc # "IndexError"
        /\ yielded # <<>> => string = HelloWorld
        /\ pc = "done" => yielded = HelloWorld
        /\ Result(prog, legacyReplace).pc = "done"
        /\ Result(prog, legacyReplace).yielded = HelloWorld

\* C8 witness: the run of HELLO_WORLD_2 has halted.
C8_Witness ==
    /\ prog = HELLO_WORLD_2
    /\ pc = "done"
    /\ yielded = HelloWorld

\* C9 as stated: the run of "/foo/bar//foo" ends with the output "bar".
C9_OutputsBar ==
    (prog = FooBarFoo /\ pc = "done") => yielded = <<"b", "a", "r">>

\* C9, amended: the run of "/foo/bar//foo" raises no error, never emits a
\* character and halts on the buffer "/bar", the rewritten remainder, whose
\* single delimiter opens an incomplete rule.
C9_OutputsNothing ==
    prog = FooBarFoo =>
        /\ pc # "IndexError"
        /\ yielded = <<>>
        /\ pc = "done" => string = <<"/", "b", "a", "r">>
        /\ Result(prog, legacyReplace).pc = "done"

\* C9 witness: the run of "/foo/bar//foo" has halted on the buffer "/bar".
C9_Witness ==
    /\ prog = FooBarFoo
    /\ pc = "done"
    /\ yielded = <<>>
    /\ string = <<"/", "b", "a", "r">>

-----------------------------------------------------------------------------
(* C10: the round trip of "/A/B/" + T + "A" and "/A/B/" + T + "B".         *)

\* p is "/" + A + "/" + B + "/" + R with A and B free of "/" and "\": its
\* second and third characters "/" stand at the 1-based places j and k
IsRuleAt(p, j, k) ==
    /\ 1 < j /\ j < k /\ k <= Len(p)
    /\ p[1] = Slash /\ p[j] = Slash /\ p[k] = Slash
    /\ \A m \in 2..(k - 1) : m # j => p[m] \notin {Slash, Backslash}

EndsWith(s, x) == Len(x) <= Len(s) /\ Last(s, Len(x)) = x

\* s without its last n elements
Front(s, n) == SubSeq(s, 1, Len(s) - n)

\* A does not occur in T
NoOccurrence(T, A) == \A k \in 0..Len(T) : ~Occurs(T, A, k)

\* the A appended to T is the only occurrence of A in T + A
OnlyFinalOccurrence(T, A) == \A k \in 0..(Len(T) - 1) : ~Occurs(T \o A, A, k)

\* what the rest of a run depends on: N is assigned before it is read again
View(st) ==
    [string |-> st.string, pat |-> st.pat, rep |-> st.rep,
     yielded |-> st.yielded, pc |-> SemPc(st.pc)]

\* the run of the program q ends as the current, finished run has ended
SameOutcome(q) ==
    LET r == Result(q, legacyReplace)
    IN  r.pc = pc /\ r.yielded = yielded

\* the round trip for the texts T that Cond(T, A) admits: a finished run of
\* either program ends as the run of the other does, and the first
\* substitution step of "/A/B/" + T + "A" leads to the frame in which
\* "/A/B/" + T + "B" starts rewriting
RoundTrip(Cond(_, _)) ==
    \A j, k \in 2..Len(prog) :
        IsRuleAt(prog, j, k) =>
            LET A == SubSeq(prog, 2, j - 1)
                B == SubSeq(prog, j + 1, k - 1)
                R == SubSeq(prog, k + 1, Len(prog))
                TA == Front(R, Len(A))
                TB == Front(R, Len(B))
            IN  /\ (/\ pc \in Terminal
                    /\ A # <<>> /\ EndsWith(R, A)
                    /\ Delims(TA) = 0 /\ Cond(TA, A))
                       => SameOutcome(Rule(A, B, TA \o B))
                /\ (/\ pc \in Terminal
                    /\ A # <<>> /\ EndsWith(R, B)
                    /\ Delims(TB) = 0 /\ Cond(TB, A))
                       => SameOutcome(Rule(A, B, TB \o A))
                /\ (/\ pc = "subst" /\ N = Len(prog) /\ string = R
                    /\ A # <<>> /\ EndsWith(R, A)
                    /\ Delims(TA) = 0 /\ Cond(TA, A))
                       => View(Step(Frame)) =
                            View(Run(CallWith(Rule(A, B, TA \o B),
                                              legacyReplace, verbose, color),
                                     {"subst"} \cup Terminal, Fuel))

\* C10 as stated: for every nonempty A, every B and every T without an
\* unescaped delimiter and without an occurrence of A, the programs
\* "/A/B/" + T + "A" and "/A/B/" + T + "B" yield the same output and end alike.
C10_RoundTrip == RoundTrip(NoOccurrence)

\* C10, amended: the same, for the T such that T + "A" holds no occurrence
\* of A but the appended one (A may not straddle the end of T).
C10_RoundTripSingleOccurrence == RoundTrip(OnlyFinalOccurrence)

\* C10 witness: the run of /ab/b/bab (A = ab, B = b, T = b) has halted with
\* the output bb, which is what /ab/b/bb yields.
C10_Witness ==
    /\ prog = <<"/", "a", "b", "/", "b", "/", "b", "a", "b">>
    /\ pc = "done"
    /\ yielded = <<"b", "b">>

-----------------------------------------------------------------------------
(* C11 to C20: the rewriting loop, the trace options, the consumer, and    *)
(* the compact interpreter.                                                *)

\* the rewriting loop has handed the buffer back to the driver loop
LoopReturned == pc = "while" /\ N > 0

\* C11: every buffer the rewriting loop returns is a fixpoint of the loop:
\* entered again with the same pattern and replacement, the loop leaves at
\* its first test, makes no substitution (it prints no trace line either)
\* and returns the identical buffer.
C11_FixpointIdempotent ==
    LoopReturned =>
        LET reentry == [Frame EXCEPT !.pc = "subst"]
            again == Run(reentry, {"while"}, Fuel)
        IN  /\ Step(reentry).pc = "while"
            /\ again.pc = "while"
            /\ again.string = string
            /\ again.printed = printed

\* C11 witness: the loop of /a/b/aa has returned bb after two substitutions.
C11_Witness ==
    /\ prog = <<"/", "a", "/", "b", "/", "a", "a">>
    /\ LoopReturned
    /\ pat = <<"a">>
    /\ string = <<"b", "b">>

\* s is "foo" followed by any number of "bar"
FooBars(s) ==
    /\ Len(s) >= 3
    /\ Len(s) % 3 = 0
    /\ \A k \in 1..Len(s) :
           s[k] = IF k <= 3 THEN <<"f", "o", "o">>[k]
                  ELSE <<"b", "a", "r">>[((k - 1) % 3) + 1]

\* C12: when the nonempty pattern of the captured rule occurs in its own
\* replacement and in the buffer, the next step of the generator is a
\* substitution that yields nothing, keeps the rule and leaves a buffer that
\* still contains the pattern, so the loop never reaches a fixpoint.  The
\* run of /foo/foobar/foo never yields and never halts, and its buffers are
\* foo, foobar, foobarbar, ...
C12_PatternInReplacementDiverges ==
    /\ (/\ pc = "subst"
        /\ pat # <<>>
        /\ ~NoOccurrence(rep, pat)
        /\ ~NoOccurrence(string, pat)) =>
           LET nxt == Step(Frame)
           IN  /\ SemPc(nxt.pc) = "subst"
               /\ nxt.pat = pat
               /\ nxt.rep = rep
               /\ nxt.yielded = yielded
               /\ Len(nxt.string) = Len(string) + Len(rep) - Len(pat)
               /\ ~NoOccurrence(nxt.string, pat)
    /\ prog = FooFoobarFoo =>
           /\ yielded = <<>>
           /\ pc \notin Terminal
           /\ SemPc(pc) = "subst" => FooBars(string)

\* C12 witness: the rule of /foo/foobar/foo has rewritten foo to foobarbar.
C12_Witness ==
    /\ prog = FooFoobarFoo
    /\ pc = "subst"
    /\ pat = <<"f", "o", "o">>
    /\ string = <<"f", "o", "o", "b", "a", "r", "b", "a", "r">>

\* the buffers of /ab/bbaa/abb that the language description lists
AbBuffers ==
    {<<"a", "b", "b">>,
     <<"b", "b", "a", "a", "b">>,
     <<"b", "b", "a", "b", "b", "a", "a">>,
     <<"b", "b", "b", "b", "a", "a", "b", "a", "a">>,
     <<"b", "b", "b", "b", "a", "b", "b", "a", "a", "a", "a">>}

\* C13: the run of /ab/bbaa/abb never yields and never halts, although its
\* replacement holds no "ab": every buffer of its rewriting loop contains
\* "ab", so every step of the loop is followed by another; the first buffers
\* are abb, bbaab, bbabbaa, bbbbaabaa, bbbbabbaaaa; and the run is still
\* rewriting a buffer that contains "ab" after Fuel steps.
C13_AbBbaaAbbDiverges ==
    prog = AbBbaaAbb =>
        /\ yielded = <<>>
        /\ pc \notin Terminal
        /\ SemPc(pc) = "subst" =>
               /\ pat = <<"a", "b">>
               /\ rep = <<"b", "b", "a", "a">>
               /\ NoOccurrence(rep, pat)
               /\ ~NoOccurrence(string, pat)
               /\ SemPc(Step(Frame).pc) = "subst"
               /\ Len(string) <= 11 => string \in AbBuffers
        /\ pc = "start" =>
               LET r == Result(prog, legacyReplace)
               IN  /\ r.pc = "subst"
                   /\ r.yielded = <<>>
                   /\ ~NoOccurrence(r.string, r.pat)

\* C13 witness: the loop of /ab/bbaa/abb has reached the buffer bbbbaabaa.
C13_Witness ==
    /\ prog = AbBbaaAbb
    /\ pc = "subst"
    /\ string = <<"b", "b", "b", "b", "a", "a", "b", "a", "a">>

\* what the program's own run consists of: the buffer, the scan, the rule,
\* the characters yielded and the control position
Sem(st) ==
    [string |-> st.string, N |-> st.N, i |-> st.i, pattern |-> st.pattern,
     replacement |-> st.replacement, pat |-> st.pat, rep |-> st.rep,
     yielded |-> st.yielded, pc |-> SemPc(st.pc)]

\* the frame st with the default options and nothing traced
Untraced(st) ==
    [st EXCEPT !.verbose = 0, !.color = 0, !.X = Delimiters(0),
               !.output = <<>>, !.printed = <<>>, !.pc = SemPc(st.pc)]

\* the step taken leaves the program's own run where the run with the
\* default options goes from the same place: a pause changes nothing of it
FollowsUntraced ==
    Sem(Frame') = IF pc \in PausePcs THEN Sem(Frame)
                  ELSE Sem(Step(Untraced(Frame)))

\* the run has ended as the run with the default options ends
EndsAsUntraced ==
    LET r == Result(prog, legacyReplace)
    IN  r.pc = pc /\ r.yielded = yielded /\ r.string = string

RewrittenOnce(s, p, r, t) ==
    \E k \in 0..Len(s) :
        /\ Occurs(s, p, k)
        /\ \A j \in 0..(k - 1) : ~Occurs(s, p, j)
        /\ Len(t) = Len(s) - Len(p) + Len(r)
        /\ SubSeq(t, 1, k) = SubSeq(s, 1, k)
        /\ SubSeq(t, k + 1, k + Len(r)) = r
        /\ From(t, k + Len(r)) = From(s, k + Len(p))

\* the step from the test of the rewriting loop: while the pattern occurs
\* anywhere in the buffer, index zero and the text just written included,
\* the step replaces its lowest occurrence and returns to the test; when it
\* occurs nowhere, the step leaves the loop with the buffer as it is
OneLowestOccurrence ==
    LET nxt == Step(Frame)
    IN  IF NoOccurrence(string, pat)
        THEN nxt.string = string /\ nxt.pc = "while"
        ELSE /\ RewrittenOnce(string, pat, rep, nxt.string)
             /\ SemPc(nxt.pc) = "subst"
             /\ nxt.pat = pat
             /\ nxt.rep = rep

\* the empty pattern meets the empty buffer on an interpreter whose
\* str.replace returns "" for "".replace("", r, 1)
LegacyEmptyCase == legacyReplace /\ string = <<>> /\ pat = <<>>

\* C15 as stated: every substitution step replaces exactly one occurrence
\* of the pattern, the one with the lowest index, keeps the characters
\* before and after it, and the next step searches the whole new buffer.
C15_OneLowestOccurrence == pc = "subst" => OneLowestOccurrence

\* C15, amended: the same, except for the empty pattern on the empty buffer
\* under a CPython older than 3.9, where the step leaves the buffer empty
\* and stays in the loop.
C15_OneLowestOccurrenceButLegacy ==
    pc = "subst" =>
        IF LegacyEmptyCase
        THEN Step(Frame).string = <<>> /\ SemPc(Step(Frame).pc) = "subst"
        ELSE OneLowestOccurrence

\* C15 witness: the loop of /a/b/aba has replaced the first a and stands
\* before the second one, which is now the lowest occurrence.
C15_Witness ==
    /\ prog = <<"/", "a", "/", "b", "/", "a", "b", "a">>
    /\ pc = "subst"
    /\ pat = <<"a">>
    /\ string = <<"b", "b", "a">>

\* the order in which a driver iteration passes through its phases
Rank(q) ==
    CASE q = "start"       -> 0
      [] q = "while"       -> 1
      [] q = "output"      -> 2
      [] q = "pattern"     -> 3
      [] q = "replacement" -> 4
      [] q = "check"       -> 5
      [] q \in PausePcs    -> 6
      [] q = "subst"       -> 6
      [] q \in Ended       -> 7

\* the next step of the generator leaves the program's own run unchanged:
\* the run has entered a cycle that it never leaves
Stuck == pc \notin Ended /\ Sem(Step(Frame)) = Sem(Frame)

\* C16 as stated: only an empty pattern keeps a run from halting, so a run
\* outside the rewriting loop of an empty pattern (every rule it has
\* captured has a nonempty pattern) never enters a cycle.
C16_OnlyEmptyPatternDiverges ==
    ~(SemPc(pc) = "subst" /\ pat = <<>>) => ~Stuck

\* C16, amended: outside the rewriting loop every step of the generator
\* moves the scan index forward within the buffer or moves on to a later
\* phase of the driver iteration, so a run fails to end only by taking
\* infinitely many steps in rewriting loops; a loop with a nonempty pattern
\* can do that as well as one with an empty pattern (see the witness).
C16_OnlyRewritingDiverges ==
    [][(pulls' = pulls /\ SemPc(pc) # "subst") =>
          \/ Rank(pc') > Rank(pc)
          \/ /\ pc' = pc
             /\ pc \in ScanPcs
             /\ i < N
             /\ i' > i
             /\ i' <= N + 1]_vars

\* C16 witness: the rule /a/a/ of /a/a/ba rewrites ba to ba, for ever.
C16_Witness ==
    /\ prog = SelfReplacing
    /\ pc = "subst"
    /\ pat = <<"a">>
    /\ rep = <<"a">>
    /\ string = <<"b", "a">>
    /\ Stuck

\* the program is P + "//" + c + "/" for a text P without "/" whose escape
\* markers are all followed by a character of P: P is its output prefix
PrefixThenRule ==
    LET n == Len(prog)
    IN  /\ n >= 4
        /\ prog[n] = Slash
        /\ prog[n - 1] \notin {Slash, Backslash}
        /\ prog[n - 2] = Slash
        /\ prog[n - 3] = Slash
        /\ NoSlash(SubSeq(prog, 1, n - 4))
        /\ OutputPrefix(prog) = Unescape(SubSeq(prog, 1, n - 4))

\* the generator variables that a suspended generator keeps
Suspended ==
    UNCHANGED <<string, N, i, pattern, replacement, pat, rep, yielded, pc,
                output, printed>>

\* C17: output is lazy and comes before rewriting.  The generator moves only
\* inside a call of next() and stops at the character it yields: it holds
\* as many characters as the consumer has pulled, or one fewer while a call
\* of next() is under way, and between two calls nothing of it changes, the
\* buffer included.  A step yields at most one character.  While the output
\* prefix is emitted the buffer and the rule are untouched and the characters
\* emitted in this driver iteration are the unescaped text scanned so far;
\* when the pattern scan starts the whole prefix has been emitted.  The
\* program P + "//" + c + "/" has delivered all of P when it starts to
\* rewrite with its empty pattern.
C17_LazyOrderedOutput ==
    /\ [](Len(yielded) <= pulls /\ pulls <= Len(yielded) + 1)
    /\ [][Len(yielded) >= pulls => Suspended]_vars
    /\ [][/\ Len(yielded') <= Len(yielded) + 1
          /\ SubSeq(yielded', 1, Len(yielded)) = yielded]_vars
    /\ [][pc = "output" =>
             /\ string' = string
             /\ pat' = pat
             /\ rep' = rep
             /\ pc' \in {"output", "pattern", "IndexError"}]_vars
    /\ [](pc = "output" =>
             LET u == Unescape(SubSeq(string, 1, i))
             IN  Len(u) <= Len(yielded) /\ Last(yielded, Len(u)) = u)
    /\ [](pc \in {"pattern", "replacement", "check"} =>
             LET u == OutputPrefix(string)
             IN  Len(u) <= Len(yielded) /\ Last(yielded, Len(u)) = u)
    /\ []((PrefixThenRule /\ SemPc(pc) = "subst") =>
             /\ yielded = Unescape(SubSeq(prog, 1, Len(prog) - 4))
             /\ pulls = Len(yielded) + 1
             /\ pat = <<>>)
    /\ [](PrefixThenRule => pc \notin Terminal)

\* C17 witness: the run of ab//x/ has delivered a and b, the consumer waits
\* for a third character, and the empty pattern has rewritten twice.
C17_Witness ==
    /\ prog = PrefixThenEmptyPattern
    /\ pc = "subst"
    /\ yielded = <<"a", "b">>
    /\ pulls = 3
    /\ string = <<"x", "x">>

RECURSIVE AfterDelims(_, _)
\* the text of s after its n-th unescaped delimiter
AfterDelims(s, n) ==
    IF n = 0 THEN s
    ELSE IF s = <<>> THEN <<>>
    ELSE IF Head(s) = Backslash THEN AfterDelims(SubSeq(s, 3, Len(s)), n)
    ELSE IF Head(s) = Slash THEN AfterDelims(Tail(s), n - 1)
    ELSE AfterDelims(Tail(s), n)

\* the frame of a rewriting loop that knows the remainder t and the rule
\* p, r only: no program, no scan, no emitted character
LoopOn(t, p, r) ==
    [CallWith(<<>>, legacyReplace, verbose, color) EXCEPT
        !.X = Delimiters(color), !.string = t, !.pat = p, !.rep = r,
        !.pc = "subst"]

\* steps within which every rewriting loop of the model that ends has ended
LoopFuel == 2 * (MaxRem + MaxGrow) + 4

\* C18: no backtracking.  The characters emitted are only ever extended.
\* No step outside the rule capture and the rewriting loop changes the
\* buffer.  The capture of a complete rule replaces the buffer by the text
\* after its third unescaped delimiter, and the buffer at the next driver
\* iteration boundary is what the rewriting loop makes of that text and the
\* rule alone: neither the emitted prefix nor the rule text is read again.
C18_NoBacktracking ==
    /\ [][/\ Len(yielded) <= Len(yielded')
          /\ SubSeq(yielded', 1, Len(yielded)) = yielded]_vars
    /\ [][SemPc(pc) \notin {"check", "subst"} => string' = string]_vars
    /\ []((pc = "check" /\ Delims(string) >= 3) =>
             LET t == AfterDelims(string, 3)
                 here == Run(Frame, {"while"} \cup Terminal, LoopFuel)
                 alone == Run(LoopOn(t, pattern, replacement),
                              {"while"}, LoopFuel - 1)
             IN  /\ Step(Frame).string = t
                 /\ Len(t) < Len(string)
                 /\ here.pc = "while" =>
                        alone.pc = "while" /\ here.string = alone.string)
    /\ [](pc = "subst" =>
             Step(Frame).string = Step(LoopOn(string, pat, rep)).string)
    /\ [][(pc \in PausePcs) => string' = string]_vars

\* C18 witness: the second driver iteration of HELLO_WORLD_2 has ended; its
\* buffer is what the rule bar -> Hello, world! made of the remainder bar.
C18_Witness ==
    /\ prog = HELLO_WORLD_2
    /\ LoopReturned
    /\ pat = <<"b", "a", "r">>
    /\ string = HelloWorld
    /\ yielded = <<>>

\* the control positions of the scanner: the driver test, the three scans
\* and the halt test
ScannerPcs == {"while"} \cup ScanPcs \cup {"check"}

\* C19: whenever the scanner runs after a rule with a nonempty pattern, from
\* the return of the rewriting loop to the capture of the next rule, the
\* buffer it scans holds no occurrence of that pattern.
C19_ScannerGetsFixpoint ==
    (pc \in ScannerPcs /\ pat # <<>>) => NoOccurrence(string, pat)

\* C19 witness: the rule a -> b of /a/b/aba has rewritten the remainder to
\* bbb, and the output scan of the next driver iteration has begun.
C19_Witness ==
    /\ prog = <<"/", "a", "/", "b", "/", "a", "b", "a">>
    /\ pc = "output"
    /\ pat = <<"a">>
    /\ string = <<"b", "b", "b">>
    /\ yielded = <<"b">>

-----------------------------------------------------------------------------
(* The compact interpreter S(s) of src/slashes.py, lines 264-273.  Its     *)
(* control positions are "while" (the test of the outer `while s:`),       *)
(* "scan" (the test of the inner `while s:` of the segment t), "subst"     *)
(* (the test of `while s and b[0] in s:`), "done" and "IndexError".        *)

\* the frame of the generator S(p), before its first step; b holds b[0] and
\* b[1], and b[2] is the constant count 1
SCall(p, legacy) ==
    [legacyReplace |-> legacy, s |-> p, b |-> <<<<>>, <<>>>>, t |-> 0,
     yielded |-> <<>>, pc |-> "while"]

\* `while s:`, `b = ["","",1]`, and the first segment of `for t in (0,1,2)`
SWhile(st) ==
    IF st.s = <<>>
    THEN [st EXCEPT !.pc = "done"]
    ELSE [st EXCEPT !.b = <<<<>>, <<>>>>, !.t = 0, !.pc = "scan"]

\* the inner loop has ended: the next segment, or the rewriting loop
SNextSegment(st) ==
    IF st.t < 2
    THEN [st EXCEPT !.t = st.t + 1]
    ELSE [st EXCEPT !.pc = "subst"]

\* one pass of the inner `while s:` of the segment t
SScan(st) ==
    IF st.s = <<>> THEN SNextSegment(st)
    ELSE IF At(st.s, 0) = Slash
         THEN SNextSegment([st EXCEPT !.s = From(st.s, 1)])
    ELSE LET s1 == IF At(st.s, 0) = Backslash THEN From(st.s, 1) ELSE st.s
         IN  IF OutOfRange(s1, 0)
             THEN [st EXCEPT !.s = s1, !.pc = "IndexError"]
             ELSE IF st.t # 0
                  THEN [st EXCEPT !.b[st.t] = Append(@, At(s1, 0)),
                                  !.s = From(s1, 1)]
                  ELSE [st EXCEPT !.yielded = Append(@, At(s1, 0)),
                                  !.s = From(s1, 1)]

\* `while s and b[0] in s: s = s.replace(*b)`, one pass
SSubst(st) ==
    IF st.s # <<>> /\ Contains(st.s, st.b[1])
    THEN [st EXCEPT !.s = Replace1(st.s, st.b[1], st.b[2], st.legacyReplace)]
    ELSE [st EXCEPT !.pc = "while"]

\* the next frame of the generator S
SStep(st) ==
    CASE st.pc = "while" -> SWhile(st)
      [] st.pc = "scan"  -> SScan(st)
      [] st.pc = "subst" -> SSubst(st)
      [] OTHER           -> st

RECURSIVE SRun(_, _)
\* the frame of S at its end, or after `fuel` steps
SRun(st, fuel) ==
    IF fuel = 0 \/ st.pc \in Terminal THEN st
    ELSE SRun(SStep(st), fuel - 1)

\* the frame in which the run of S(p) ends, within Fuel steps
SResult(p, legacy) == SRun(SCall(p, legacy), Fuel)

\* C20: S(s) is equivalent to slashes(s) for every program, a rule with an
\* empty pattern and an empty remainder such as "///" included: when the
\* run of slashes has ended, the run of S ends in the same way (StopIteration
\* or IndexError) with the same characters; and while slashes rewrites with
\* an empty pattern, which it does for ever, S has yielded the same
\* characters and does not end either.
C20_CompactEquivalent ==
    LET c == SResult(prog, legacyReplace)
    IN  /\ pc \in Terminal => (c.pc = pc /\ c.yielded = yielded)
        /\ (pc = "subst" /\ pat = <<>>) =>
               (c.pc \notin Terminal /\ c.yielded = yielded)

-----------------------------------------------------------------------------
(* C21 to C23: the length of the buffer, substituted text as code, and the *)
(* buffers of an empty pattern.                                            *)

\* the steps within which a run of a program of length n is said to end
StepBound(n) == 2 * n + 6

\* the step from st captures a complete rule
Captures(st) == st.pc = "check" /\ ~Incomplete(st.i, st.N)

RECURSIVE EveryRuleShrinks(_, _)
\* every rule captured in the first `fuel` steps from st has a nonempty
\* pattern and a replacement strictly shorter than it
EveryRuleShrinks(st, fuel) ==
    IF fuel = 0 \/ st.pc \in Terminal THEN TRUE
    ELSE /\ Captures(st) =>
                (st.pattern # <<>> /\ Len(st.replacement) < Len(st.pattern))
         /\ EveryRuleShrinks(Step(st), fuel - 1)

RECURSIVE LengthDecreases(_, _)
\* every one of the first `fuel` steps from st that changes the buffer
\* makes it strictly shorter
LengthDecreases(st, fuel) ==
    IF fuel = 0 \/ st.pc \in Terminal THEN TRUE
    ELSE /\ Step(st).string # st.string =>
                Len(Step(st).string) < Len(st.string)
         /\ LengthDecreases(Step(st), fuel - 1)

\* the capture of a complete rule removes at least three characters
CaptureRemovesThree ==
    Captures(Frame) => Len(Step(Frame).string) <= Len(string) - 3

\* a substitution step changes the length by len(rep) - len(pat)
SubstitutionChangesLength ==
    (pc = "subst" /\ ~NoOccurrence(string, pat)) =>
        Len(Step(Frame).string) = Len(string) + Len(rep) - Len(pat)

\* a run whose rules all shrink has a strictly decreasing buffer length and
\* ends within StepBound of its steps
ShrinkingRunEnds ==
    pc = "start" =>
        LET bound == StepBound(Len(prog))
            call == Call(prog, legacyReplace)
        IN  EveryRuleShrinks(call, bound) =>
                /\ LengthDecreases(call, bound)
                /\ Run(call, Terminal, bound).pc \in Terminal

DelimitersAt(s, a, b, c) ==
    /\ a < b /\ b < c
    /\ Delims(SubSeq(s, 1, a - 1)) = 0 /\ Delims(SubSeq(s, 1, a)) = 1
    /\ Delims(SubSeq(s, 1, b - 1)) = 1 /\ Delims(SubSeq(s, 1, b)) = 2
    /\ Delims(SubSeq(s, 1, c - 1)) = 2 /\ Delims(SubSeq(s, 1, c)) = 3

\* the step that captures a rule takes pattern and replacement from the
\* text between the delimiters, each un-escaped once, and keeps the text
\* after the third delimiter as it is written
UnescapedOnce ==
    Captures(Frame) =>
        \E a, b, c \in 1..Len(string) :
            /\ DelimitersAt(string, a, b, c)
            /\ Step(Frame).pat = Unescape(SubSeq(string, a + 1, b - 1))
            /\ Step(Frame).rep = Unescape(SubSeq(string, b + 1, c - 1))
            /\ Step(Frame).string = From(string, c)

\* what a substitution step writes in place of the occurrence is the
\* replacement, character for character
InsertedVerbatim ==
    (pc = "subst" /\ Step(Frame).string # string) =>
        RewrittenOnce(string, pat, rep, Step(Frame).string)

\* the run goes on from the end of a rewriting loop as a call on the buffer
\* as its program text goes: same position, same buffer, same rule while
\* one is applied, and the output of that call after the output so far
ScannedAfresh ==
    LoopReturned =>
        LET here == Run(Frame, Terminal, LoopFuel)
            fresh == Run(CallWith(string, legacyReplace, verbose, color),
                         Terminal, LoopFuel + 1)
        IN  /\ here.pc = fresh.pc
            /\ here.string = fresh.string
            /\ SemPc(here.pc) = "subst" =>
                   (here.pat = fresh.pat /\ here.rep = fresh.rep)
            /\ here.yielded = yielded \o fresh.yielded

\* HELLO_WORLD_5 (line 290): its second rule is assembled by the first one
HelloWorld5Runs ==
    (pc = "start" /\ prog = HELLO_WORLD_5) =>
        LET r == Result(prog, legacyReplace)
        IN  r.pc = "done" /\ r.yielded = HelloWorld

\* C22: pattern and replacement are un-escaped exactly once when the rule
\* is captured, a substitution step inserts the replacement verbatim, and
\* the buffer a rewriting loop leaves is scanned as program text in the
\* next iteration, so that a "/" or "\" that came in through a replacement
\* is a delimiter or an escape marker there and a rule assembled by
\* substitution is executed.
C22_SubstitutedTextIsCode ==
    /\ UnescapedOnce
    /\ InsertedVerbatim
    /\ ScannedAfresh
    /\ HelloWorld5Runs

\* C22 witness: in the run of /a/\//aaa the replacement "/" has turned the
\* buffer aaa into ///, and that text is being executed as the rule with
\* the empty pattern.
C22_Witness ==
    /\ prog = Rule(<<"a">>, Escaped(<<Slash>>), <<"a", "a", "a">>)
    /\ pc = "subst"
    /\ N = 3
    /\ pat = <<>> /\ rep = <<>> /\ string = <<>>
    /\ yielded = <<>>

RECURSIVE Repeated(_, _)
\* r repeated k times
Repeated(r, k) == IF k = 0 THEN <<>> ELSE r \o Repeated(r, k - 1)

\* the frame at the test of the rewriting loop next after st, an answered
\* pause passed
AtLoopTest(st) == IF st.pc \in PausePcs THEN Step(st) ELSE st

RECURSIVE AfterSubstitutions(_, _)
\* the frame k substitution steps after the capture made by the step from st
AfterSubstitutions(st, k) ==
    IF k = 0 THEN AtLoopTest(Step(st))
    ELSE AtLoopTest(Step(AfterSubstitutions(st, k - 1)))

\* the step from the current frame captures a rule with an empty pattern
CapturesEmptyPattern == Captures(Frame) /\ pattern = <<>>

\* after k substitution steps of an empty pattern the loop is at its test
\* with the replacement k times before the remainder
EmptyPatternBuffers ==
    CapturesEmptyPattern =>
        \A k \in 0..MaxGrow :
            LET after == AfterSubstitutions(Frame, k)
            IN  /\ after.pc = "subst"
                /\ after.string =
                       Repeated(replacement, k) \o Remainder(string, i)

\* a substitution step of an empty pattern puts the replacement before the
\* buffer, which it leaves as it is, and so adds len(rep) to its length
EmptyPatternStep ==
    (pc = "subst" /\ pat = <<>>) =>
        /\ Step(Frame).string = rep \o string
        /\ Len(Step(Frame).string) = Len(string) + Len(rep)

\* an empty pattern, an empty remainder and a replacement to insert, under
\* a CPython older than 3.9: every step leaves the buffer empty
LegacyEmptyRemainder(st) ==
    st.legacyReplace /\ Remainder(st.string, st.i) = <<>>

\* C23 as stated: during the divergence of an empty pattern the buffer
\* after k substitution steps is the replacement repeated k times followed
\* by the remainder of the capture, which is never altered, and every step
\* adds len(replacement) to the length of the buffer.
C23_EmptyPatternBuffers ==
    /\ EmptyPatternBuffers
    /\ EmptyPatternStep

\* C23, amended: the same, except that under a CPython older than 3.9 an
\* empty remainder stays empty at every step.
C23_EmptyPatternBuffersButLegacy ==
    /\ IF CapturesEmptyPattern /\ LegacyEmptyRemainder(Frame)
       THEN \A k \in 0..MaxGrow :
                /\ AfterSubstitutions(Frame, k).pc = "subst"
                /\ AfterSubstitutions(Frame, k).string = <<>>
       ELSE EmptyPatternBuffers
    /\ IF LegacyEmptyCase THEN pc = "subst" => Step(Frame).string = <<>>
       ELSE EmptyPatternStep

\* C23 witness: two substitution steps after the capture of the rule of
\* //a/b the buffer is aab.
C23_Witness ==
    /\ prog = <<"/", "/", "a", "/", "b">>
    /\ pc = "subst"
    /\ pat = <<>> /\ rep = <<"a">>
    /\ string = <<"a", "a", "b">>

=============================================================================
